---- MODULE Spec2Model ----
(***************************************************************************)
(* Model of plugins/modules/pro.py: the Ansible module that reconciles the *)
(* Ubuntu Pro attachment and service state of a host through the `pro`    *)
(* command line tool.  One run of main() is a walk of the program counter  *)
(* pc through the statements of main(); every call of module.run_command   *)
(* is one step whose outcome (exit code, output) the external tool picks.  *)
(***************************************************************************)
EXTENDS Integers, Sequences, FiniteSets, TLC

\* ---------------------------------------------------------------- bounds
\* Longest enabled / disabled list a caller passes.
MaxLen == 2

\* Number of successive runs of main() against the same host (SpecTwice).
MaxRuns == 2

\* Longest services list of a status payload built from mixed entries
\* (SpecInterp).
MaxEntries == 2

\* Service names known to the tool, in the order its status lists them.
ServiceOrder == <<"esm-apps", "livepatch">>

Services == {ServiceOrder[i] : i \in 1..Len(ServiceOrder)}

\* ------------------------------------------------------ Python / JSON values
\* Python's None and a present value, for optional parameters.
None == [isNone |-> TRUE]

Some(v) == [isNone |-> FALSE, v |-> v]

\* Parsed JSON values, tagged by their Python type.
JNull == [t |-> "null"]

JBool(b) == [t |-> "bool", b |-> b]

JStr(s) == [t |-> "str", s |-> s]

JList(q) == [t |-> "list", items |-> q]

JDict(f) == [t |-> "dict", d |-> f]

\* Python's bool(x) on a parsed JSON value.
bool(x) ==
    CASE x.t = "null" -> FALSE
      [] x.t = "bool" -> x.b
      [] x.t = "str" -> x.s # ""
      [] x.t = "list" -> x.items # <<>>
      [] x.t = "dict" -> DOMAIN x.d # {}

\* Mutant of lower: the text is compared as it is written.
lowerIdentity(s) == s

\* str.lower() on the words the tool writes in a status / state field.
lower(s) ==
    CASE s = "Active" -> "active"
      [] s = "ENABLED" -> "enabled"
      [] s = "On" -> "on"
      [] OTHER -> s

\* dict.get(key) with the default None.
get(x, key) == IF key \in DOMAIN x.d THEN x.d[key] ELSE JNull

_ENABLED == {"enabled", "active", "on"}

\* The executable module.get_bin_path("pro", required=True) resolved.
pro == "/usr/bin/pro"

\* ------------------------------------------------------ status interpretation
_service_enabled(service) ==
    IF "enabled" \in DOMAIN service.d
    THEN bool(service.d["enabled"])
    ELSE IF get(service, "status").t = "str"
    THEN lower(get(service, "status").s) \in _ENABLED
    ELSE IF get(service, "state").t = "str"
    THEN lower(get(service, "state").s) \in _ENABLED
    ELSE FALSE

\* service_entries: status.get("services", []) of a dict, else [].
ServiceEntries(status) ==
    IF status.t = "dict"
    THEN (IF "services" \in DOMAIN status.d THEN status.d["services"] ELSE JList(<<>>))
    ELSE JList(<<>>)

\* The entries the for loop visits when service_entries is a list.
Items(v) == IF v.t = "list" THEN v.items ELSE <<>>

\* Whether an entry reaches current_enabled.add(name).
Added(svc) == bool(get(svc, "name")) /\ _service_enabled(svc)

\* Whether _collect_enabled_services raises: service_entries cannot be
\* iterated (None, a boolean), iterating it yields strings (the keys of a
\* dict, the characters of a string), an entry is no dict and has no .get,
\* or the name to add is a list or a dict and cannot be hashed.
CollectRaises(status) ==
    LET v == ServiceEntries(status)
    IN  \/ v.t \in {"null", "bool"}
        \/ v.t = "dict" /\ DOMAIN v.d # {}
        \/ v.t = "str" /\ v.s # ""
        \/ \E i \in 1..Len(Items(v)) :
               \/ Items(v)[i].t # "dict"
               \/ Added(Items(v)[i]) /\ get(Items(v)[i], "name").t \in {"list", "dict"}

\* The names of the entries the loop adds to current_enabled, when it does
\* not raise.
_collect_enabled_services(status) ==
    LET service_entries == Items(ServiceEntries(status))
    IN  {get(service_entries[i], "name").s :
            i \in {j \in 1..Len(service_entries) : Added(service_entries[j])}}

_status_attached(status) ==
    IF status.t = "dict" /\ "attached" \in DOMAIN status.d
    THEN bool(get(status, "attached"))
    ELSE FALSE

\* ------------------------------------------------------------- the diff
\* [svc for svc in lst if keep(svc)], for keep = membership (or not) in cur.
RECURSIVE Filter(_, _, _)
Filter(lst, cur, wantIn) ==
    IF lst = <<>> THEN <<>>
    ELSE IF (Head(lst) \in cur) = wantIn
         THEN <<Head(lst)>> \o Filter(Tail(lst), cur, wantIn)
         ELSE Filter(Tail(lst), cur, wantIn)

\* Mutant of ToEnable: the list is passed on unfiltered.
ToEnableUnfiltered(enabled, current_enabled) == enabled

ToEnable(enabled, current_enabled) == Filter(enabled, current_enabled, FALSE)

\* Mutant of ToDisable: the list is passed on without the diff.
ToDisableUnfiltered(disabled, current_enabled) == disabled

ToDisable(disabled, current_enabled) == Filter(disabled, current_enabled, TRUE)

\* Mutant of AttachNeeded: only an explicit state=attached implies an attach.
AttachNeededStateOnly(state, enabled, disabled, attached) ==
    state = Some("attached") /\ ~attached

\* Truth value of (state == "attached" or enabled or disabled) and not attached.
AttachNeeded(state, enabled, disabled, attached) ==
    (state = Some("attached") \/ enabled # <<>> \/ disabled # <<>>) /\ ~attached

\* Mutant of DetachNeeded: `or not attached` in place of `and attached`.
DetachNeededOr(state, attached) == state = Some("detached") \/ ~attached

DetachNeeded(state, attached) == state = Some("detached") /\ attached

\* ------------------------------------------------------------ the `pro` tool
\* What module.run_command returns: exit code, stdout, stderr.  stdout is
\* empty, text that is not JSON, or a JSON document.
EmptyOut == [kind |-> "empty"]

TextOut == [kind |-> "text", text |-> "not json"]

JsonOut(v) == [kind |-> "json", val |-> v]

\* `pro status --format=json` of a host: the attached flag and one entry per
\* service with its textual status.
StatusOf(h) ==
    JDict([attached |-> JBool(h.attached),
           services |-> JList([i \in 1..Len(ServiceOrder) |->
               JDict([name |-> JStr(ServiceOrder[i]),
                      status |-> JStr(IF ServiceOrder[i] \in h.enabled
                                      THEN "enabled" ELSE "disabled")])])])

\* Outcomes of a failing invocation (non-zero exit code).
Failures ==
    {[rc |-> 1, out |-> EmptyOut, err |-> "error"],
     [rc |-> 2, out |-> TextOut, err |-> ""]}

Ok(out) == [rc |-> 0, out |-> out, err |-> ""]

\* Outcomes of the status command: a failure, no output, text that is not
\* JSON, or the host's status document.
StatusOutcomes(h) == Failures \cup {Ok(EmptyOut), Ok(TextOut), Ok(JsonOut(StatusOf(h)))}

\* Outcomes of attach / detach / enable / disable.
ActionOutcomes == Failures \cup {Ok(EmptyOut), Ok(JsonOut(JDict([result |-> JStr("success")])))}

\* Services the subscription may switch on by itself when the host attaches.
AttachDefaults == {{}, {"esm-apps"}}

\* ---------------------------------------------------------------- _execute
\* Mutant of ExecuteFails: only exit codes above 1 count as failures.
ExecuteFailsAboveOne(o) == o.rc > 1

\* rc != 0: module.fail_json ends the run.
ExecuteFails(o) == o.rc # 0

\* The keyword arguments fail_json gets from _execute.
ExecuteFailure(args, o) ==
    [msg |-> "command failed", rc |-> o.rc, stdout |-> o.out, stderr |-> o.err, cmd |-> args]

\* The parsed value _execute returns for an exit code of 0.
_execute(o) ==
    IF o.out.kind = "empty" THEN JNull
    ELSE IF o.out.kind = "json" THEN o.out.val
    ELSE JDict([raw |-> JStr(o.out.text)])

\* The argument vectors of the five invocations.
StatusCmd == <<pro, "status", "--wait", "--format=json">>

AttachCmd(tok) == <<pro, "attach", "--format=json", tok>>

DetachCmd == <<pro, "detach", "--assume-yes", "--format=json">>

\* Mutant of EnableCmd: --assume-yes is left out.
EnableCmdNoAssumeYes(lst) == <<pro, "enable", "--format=json">> \o lst

EnableCmd(lst) == <<pro, "enable", "--assume-yes", "--format=json">> \o lst

DisableCmd(lst) == <<pro, "disable", "--assume-yes", "--format=json">> \o lst

\* ------------------------------------------------------------------ state
VARIABLES
    params,         \* module.params and module.check_mode, as the caller gave them
    host,           \* the host: attached flag and set of enabled services
    run,            \* number of the current run of main()
    pc,             \* position in main()
    status,         \* local `status`
    result,         \* the result dict, a function of its present keys
    changed,        \* local `changed`
    attach_needed,  \* truth value of local `attach_needed`
    detach_needed,  \* local `detach_needed`
    to_enable,      \* local `to_enable`
    to_disable,     \* local `to_disable`
    calls,          \* the run_command calls of this run, in order, each with
                    \* the function of pro.py that made it and its outcome
    failure         \* the keyword arguments of fail_json, once it was called

vars == <<params, host, run, pc, status, result, changed, attach_needed,
          detach_needed, to_enable, to_disable, calls, failure>>

locals == <<status, result, changed, attach_needed, detach_needed, to_enable, to_disable>>

\* ----------------------------------------------------------------- inputs
Lists == UNION {[1..k -> Services] : k \in 0..MaxLen}

ParamsSet ==
    [state : {None, Some("attached"), Some("detached")},
     token : {None, Some(""), Some("tok")},
     enabled : {None} \cup {Some(q) : q \in Lists},
     disabled : {None} \cup {Some(q) : q \in Lists},
     check_mode : BOOLEAN]

Hosts == [attached : BOOLEAN, enabled : SUBSET Services]

\* `x or []` of a list parameter.
OrEmpty(p) == IF p.isNone THEN <<>> ELSE p.v

\* Locals of main() read from module.params.
state == params.state

token == params.token

enabled == OrEmpty(params.enabled)

disabled == OrEmpty(params.disabled)

\* `not token`: None or the empty string.
NoToken(tok) == tok.isNone \/ tok.v = ""

\* result[key] = value
Put(r, key, value) == [k \in DOMAIN r \cup {key} |-> IF k = key THEN value ELSE r[k]]

FreshLocals ==
    /\ status = JNull
    /\ result = [changed |-> FALSE]
    /\ changed = FALSE
    /\ attach_needed = FALSE
    /\ detach_needed = FALSE
    /\ to_enable = <<>>
    /\ to_disable = <<>>

Init ==
    /\ params \in ParamsSet
    /\ host \in Hosts
    /\ run = 1
    /\ pc = "start"
    /\ FreshLocals
    /\ calls = <<>>
    /\ failure = None

\* module.fail_json(**kwargs): the run ends here.
FailJson(kwargs) ==
    /\ pc' = "failed"
    /\ failure' = Some(kwargs)

\* One module.run_command(args) with outcome o, made on behalf of fn.
RunCommand(fn, args, o) ==
    calls' = Append(calls, [fn |-> fn, cmd |-> args, rc |-> o.rc, out |-> o.out, err |-> o.err])

\* ------------------------------------------------------------------- main
\* required_if=[["state", "attached", ["token"]]]: AnsibleModule refuses
\* state=attached when no token parameter was given.
RequiredIfFails(st, tok) == st = Some("attached") /\ tok.isNone

\* Mutant of ValidateFails: only the enabled list is looked at.
ValidateFailsEnabledOnly(st, en, dis) == st = Some("detached") /\ en # <<>>

\* Mutant of ValidateFails: the combination is not checked at all.
ValidateFailsNever(st, en, dis) == FALSE

\* state == "detached" and (enabled or disabled)
ValidateFails(st, en, dis) == st = Some("detached") /\ (en # <<>> \/ dis # <<>>)

\* Mutant of CheckMode: check mode is not honoured.
CheckModeIgnored == FALSE

\* module.check_mode
CheckMode == params.check_mode

\* Mutant of TokenCheckFails: `token is None` in place of `not token`.
TokenCheckNoneOnly(an, tok) == an /\ tok.isNone

\* if attach_needed and not token: fail_json
TokenCheckFails(an, tok) == an /\ NoToken(tok)

\* elif attach_needed and token
AttachBranch(an, tok) == an /\ ~NoToken(tok)

\* Mutant of NonEmpty: the action is invoked whatever the list holds.
NonEmptyAlways(lst) == TRUE

\* if to_enable / if to_disable: a non-empty list.
NonEmpty(lst) == lst # <<>>

\* Mutant of WouldChange: the prediction looks at the two lists only.
WouldChangeListsOnly(an, dn, te, td) == te # <<>> \/ td # <<>>

\* bool(attach_needed or detach_needed or to_enable or to_disable)
WouldChange(an, dn, te, td) == an \/ dn \/ te # <<>> \/ td # <<>>

\* Mutant of Following: the disable statement is placed before the enable one.
FollowingDisableFirst(p) ==
    CASE p = "execute" -> "disable"
      [] p = "disable" -> "enable"
      [] p = "enable" -> "finalize"

\* The statement of main() that follows the if / elif, the `if to_enable`
\* and the `if to_disable` statements.
Following(p) ==
    CASE p = "execute" -> "enable"
      [] p = "enable" -> "disable"
      [] p = "disable" -> "finalize"

\* Mutant of ReReadNeeded: the final status read is left out.
ReReadNever(c) == FALSE

\* if changed: the status is read once more before the exit.
ReReadNeeded(c) == c

\* AnsibleModule(...): argument checks of the framework.
Construct ==
    /\ pc = "start"
    /\ IF RequiredIfFails(state, token)
       THEN FailJson([msg |-> "state is attached but all of the following are missing: token"])
       ELSE pc' = "validate" /\ UNCHANGED failure
    /\ UNCHANGED <<params, host, run, locals, calls>>

\* if state == "detached" and (enabled or disabled): fail_json
Validate ==
    /\ pc = "validate"
    /\ IF ValidateFails(state, enabled, disabled)
       THEN FailJson([msg |-> "enabled/disabled cannot be used with state=detached"])
       ELSE pc' = "observe" /\ UNCHANGED failure
    /\ UNCHANGED <<params, host, run, locals, calls>>

\* status = _get_status(module, pro); result["status"] = status
Observe(o) ==
    /\ pc = "observe"
    /\ RunCommand("_get_status", StatusCmd, o)
    /\ IF ExecuteFails(o)
       THEN FailJson(ExecuteFailure(StatusCmd, o)) /\ UNCHANGED <<status, result>>
       ELSE /\ status' = _execute(o)
            /\ result' = Put(result, "status", _execute(o))
            /\ pc' = "plan"
            /\ UNCHANGED failure
    /\ UNCHANGED <<params, host, run, changed, attach_needed, detach_needed,
                   to_enable, to_disable>>

\* attached ... to_disable: the plan, and the token check in its middle.
Plan ==
    /\ pc = "plan"
    /\ LET attached == _status_attached(status)
           current_enabled == _collect_enabled_services(status)
       IN  /\ attach_needed' = AttachNeeded(state, enabled, disabled, attached)
           /\ IF TokenCheckFails(attach_needed', token)
              THEN /\ FailJson([msg |-> "token is required to attach the system"])
                   /\ UNCHANGED <<detach_needed, to_enable, to_disable>>
              ELSE /\ detach_needed' = DetachNeeded(state, attached)
                   /\ to_enable' = ToEnable(enabled, current_enabled)
                   /\ to_disable' = ToDisable(disabled, current_enabled)
                   /\ pc' = "execute"
                   /\ UNCHANGED failure
    /\ UNCHANGED <<params, host, run, status, result, changed, calls>>

\* if module.check_mode: ... module.exit_json(**result)
CheckModeExit ==
    /\ pc = "execute"
    /\ CheckMode
    /\ LET c == WouldChange(attach_needed, detach_needed, to_enable, to_disable)
           r1 == Put(result, "changed", c)
           r2 == IF NonEmpty(to_enable) THEN Put(r1, "enabled", to_enable) ELSE r1
           r3 == IF NonEmpty(to_disable) THEN Put(r2, "disabled", to_disable) ELSE r2
       IN  /\ changed' = c
           /\ result' = r3
    /\ pc' = "exited"
    /\ UNCHANGED <<params, host, run, status, attach_needed, detach_needed,
                   to_enable, to_disable, calls, failure>>

\* if detach_needed: changed |= _maybe_detach(module, pro, result)
Detach(o) ==
    /\ pc = "execute"
    /\ ~CheckMode
    /\ detach_needed
    /\ RunCommand("_maybe_detach", DetachCmd, o)
    /\ IF ExecuteFails(o)
       THEN FailJson(ExecuteFailure(DetachCmd, o)) /\ UNCHANGED <<result, changed, host>>
       ELSE /\ result' = Put(result, "detach_result", _execute(o))
            /\ changed' = TRUE
            /\ host' = [attached |-> FALSE, enabled |-> {}]
            /\ pc' = Following("execute")
            /\ UNCHANGED failure
    /\ UNCHANGED <<params, run, status, attach_needed, detach_needed, to_enable, to_disable>>

\* elif attach_needed and token: changed |= _maybe_attach(module, pro, token, result)
Attach(o, defaults) ==
    /\ pc = "execute"
    /\ ~CheckMode
    /\ ~detach_needed
    /\ AttachBranch(attach_needed, token)
    /\ RunCommand("_maybe_attach", AttachCmd(token.v), o)
    /\ IF ExecuteFails(o)
       THEN FailJson(ExecuteFailure(AttachCmd(token.v), o)) /\ UNCHANGED <<result, changed, host>>
       ELSE /\ result' = Put(result, "attach_result", _execute(o))
            /\ changed' = TRUE
            /\ host' = [attached |-> TRUE, enabled |-> host.enabled \cup defaults]
            /\ pc' = "reobserve"
            /\ UNCHANGED failure
    /\ UNCHANGED <<params, run, status, attach_needed, detach_needed, to_enable, to_disable>>

\* Mutant of ReObserve: the status is read again but the lists of the first
\* plan are kept.
ReObserveNoReplan(o) ==
    /\ pc = "reobserve"
    /\ RunCommand("_get_status", StatusCmd, o)
    /\ IF ExecuteFails(o)
       THEN /\ FailJson(ExecuteFailure(StatusCmd, o))
            /\ UNCHANGED <<status, result>>
       ELSE /\ status' = _execute(o)
            /\ result' = Put(result, "status", _execute(o))
            /\ pc' = Following("execute")
            /\ UNCHANGED failure
    /\ UNCHANGED <<params, host, run, changed, attach_needed, detach_needed,
                   to_enable, to_disable>>

\* The rest of the elif branch: the status is read again and the lists are
\* computed again from it.
ReObserve(o) ==
    /\ pc = "reobserve"
    /\ RunCommand("_get_status", StatusCmd, o)
    /\ IF ExecuteFails(o)
       THEN /\ FailJson(ExecuteFailure(StatusCmd, o))
            /\ UNCHANGED <<status, result, to_enable, to_disable>>
       ELSE /\ status' = _execute(o)
            /\ result' = Put(result, "status", _execute(o))
            /\ to_enable' = ToEnable(enabled, _collect_enabled_services(_execute(o)))
            /\ to_disable' = ToDisable(disabled, _collect_enabled_services(_execute(o)))
            /\ pc' = Following("execute")
            /\ UNCHANGED failure
    /\ UNCHANGED <<params, host, run, changed, attach_needed, detach_needed>>

\* Neither branch of the if / elif is taken.
NoAttachDetach ==
    /\ pc = "execute"
    /\ ~CheckMode
    /\ ~detach_needed
    /\ ~AttachBranch(attach_needed, token)
    /\ changed' = FALSE
    /\ pc' = Following("execute")
    /\ UNCHANGED <<params, host, run, status, result, attach_needed, detach_needed,
                   to_enable, to_disable, calls, failure>>

Range(q) == {q[i] : i \in 1..Len(q)}

\* if to_enable: changed |= _maybe_enable_services(module, pro, to_enable, result)
EnableServices(o) ==
    /\ pc = "enable"
    /\ NonEmpty(to_enable)
    /\ RunCommand("_maybe_enable_services", EnableCmd(to_enable), o)
    /\ IF ExecuteFails(o)
       THEN FailJson(ExecuteFailure(EnableCmd(to_enable), o)) /\ UNCHANGED <<result, changed, host>>
       ELSE /\ result' = Put(Put(result, "enable_result", _execute(o)), "enabled", to_enable)
            /\ changed' = TRUE
            /\ host' = [host EXCEPT !.enabled = @ \cup Range(to_enable)]
            /\ pc' = Following("enable")
            /\ UNCHANGED failure
    /\ UNCHANGED <<params, run, status, attach_needed, detach_needed, to_enable, to_disable>>

SkipEnable ==
    /\ pc = "enable"
    /\ ~NonEmpty(to_enable)
    /\ pc' = Following("enable")
    /\ UNCHANGED <<params, host, run, locals, calls, failure>>

\* if to_disable: changed |= _maybe_disable_services(module, pro, to_disable, result)
DisableServices(o) ==
    /\ pc = "disable"
    /\ NonEmpty(to_disable)
    /\ RunCommand("_maybe_disable_services", DisableCmd(to_disable), o)
    /\ IF ExecuteFails(o)
       THEN FailJson(ExecuteFailure(DisableCmd(to_disable), o)) /\ UNCHANGED <<result, changed, host>>
       ELSE /\ result' = Put(Put(result, "disable_result", _execute(o)), "disabled", to_disable)
            /\ changed' = TRUE
            /\ host' = [host EXCEPT !.enabled = @ \ Range(to_disable)]
            /\ pc' = Following("disable")
            /\ UNCHANGED failure
    /\ UNCHANGED <<params, run, status, attach_needed, detach_needed, to_enable, to_disable>>

SkipDisable ==
    /\ pc = "disable"
    /\ ~NonEmpty(to_disable)
    /\ pc' = Following("disable")
    /\ UNCHANGED <<params, host, run, locals, calls, failure>>

\* if changed: result["status"] = _get_status(module, pro); then the exit.
FinalStatus(o) ==
    /\ pc = "finalize"
    /\ ReReadNeeded(changed)
    /\ RunCommand("_get_status", StatusCmd, o)
    /\ IF ExecuteFails(o)
       THEN FailJson(ExecuteFailure(StatusCmd, o)) /\ UNCHANGED result
       ELSE /\ result' = Put(Put(result, "status", _execute(o)), "changed", changed)
            /\ pc' = "exited"
            /\ UNCHANGED failure
    /\ UNCHANGED <<params, host, run, status, changed, attach_needed, detach_needed,
                   to_enable, to_disable>>

\* result["changed"] = changed; module.exit_json(**result), nothing changed.
ExitUnchanged ==
    /\ pc = "finalize"
    /\ ~ReReadNeeded(changed)
    /\ result' = Put(result, "changed", changed)
    /\ pc' = "exited"
    /\ UNCHANGED <<params, host, run, status, changed, attach_needed, detach_needed,
                   to_enable, to_disable, calls, failure>>

\* The task runs again with the same parameters against the host as it is now.
Rerun ==
    /\ pc = "exited"
    /\ run < MaxRuns
    /\ run' = run + 1
    /\ pc' = "start"
    /\ status' = JNull
    /\ result' = [changed |-> FALSE]
    /\ changed' = FALSE
    /\ attach_needed' = FALSE
    /\ detach_needed' = FALSE
    /\ to_enable' = <<>>
    /\ to_disable' = <<>>
    /\ calls' = <<>>
    /\ failure' = None
    /\ UNCHANGED <<params, host>>

\* One run of main() against a tool whose status output may be degraded.
Next ==
    \/ Construct
    \/ Validate
    \/ \E o \in StatusOutcomes(host) : Observe(o)
    \/ Plan
    \/ CheckModeExit
    \/ \E o \in ActionOutcomes : Detach(o)
    \/ \E o \in ActionOutcomes, d \in AttachDefaults : Attach(o, d)
    \/ \E o \in StatusOutcomes(host) : ReObserve(o)
    \/ NoAttachDetach
    \/ \E o \in ActionOutcomes : EnableServices(o)
    \/ SkipEnable
    \/ \E o \in ActionOutcomes : DisableServices(o)
    \/ SkipDisable
    \/ \E o \in StatusOutcomes(host) : FinalStatus(o)
    \/ ExitUnchanged

Spec == Init /\ [][Next]_vars

\* The status command of a tool that reports the host as it is.
FaithfulStatusOutcomes(h) == Failures \cup {Ok(JsonOut(StatusOf(h)))}

\* Successive runs of main() with the same parameters against a tool that
\* reports the host as it is and applies each command it accepts.
NextTwice ==
    \/ Construct
    \/ Validate
    \/ \E o \in FaithfulStatusOutcomes(host) : Observe(o)
    \/ Plan
    \/ CheckModeExit
    \/ \E o \in ActionOutcomes : Detach(o)
    \/ \E o \in ActionOutcomes, d \in AttachDefaults : Attach(o, d)
    \/ \E o \in FaithfulStatusOutcomes(host) : ReObserve(o)
    \/ NoAttachDetach
    \/ \E o \in ActionOutcomes : EnableServices(o)
    \/ SkipEnable
    \/ \E o \in ActionOutcomes : DisableServices(o)
    \/ SkipDisable
    \/ \E o \in FaithfulStatusOutcomes(host) : FinalStatus(o)
    \/ ExitUnchanged
    \/ Rerun

SpecTwice == Init /\ [][NextTwice]_vars

\* ------------------------------------------------------- reading the history
Mutating == {"_maybe_attach", "_maybe_detach", "_maybe_enable_services",
             "_maybe_disable_services"}

\* The calls of this run made by the functions in F, in order.
CallsOf(F) == SelectSeq(calls, LAMBDA c : c.fn \in F)

\* msg of the fail_json call that ended the run, "" while there is none.
FailMsg == IF failure.isNone THEN "" ELSE failure.v["msg"]

MsgRequiredIf == "state is attached but all of the following are missing: token"

MsgValidate == "enabled/disabled cannot be used with state=detached"

MsgToken == "token is required to attach the system"

MsgCommand == "command failed"

\* Positions of main() after the plan was computed.
AfterPlan == {"execute", "reobserve", "enable", "disable", "finalize", "exited"}

\* ------------------------------------------------------------------ claims
\* C1 (as stated): a second non-check run with the same desired state issues
\* no attach, detach, enable or disable invocation and returns changed=false.
C1_Idempotent ==
    (run >= 2 /\ ~params.check_mode) =>
        /\ CallsOf(Mutating) = <<>>
        /\ pc = "exited" => result["changed"] = FALSE

\* C2: in check mode the only invocation of a run is the initial status
\* read, and the result carries none of the four *_result fields.
C2_DryRunPure ==
    params.check_mode =>
        /\ CallsOf(Mutating) = <<>>
        /\ Len(calls) <= 1
        /\ pc = "exited" => (Len(calls) = 1 /\ calls[1].cmd = StatusCmd)
        /\ DOMAIN result \cap
               {"attach_result", "detach_result", "enable_result", "disable_result"} = {}

\* A check-mode run that returned with a plan holding an attach and both lists.
C2_Witness ==
    /\ params.check_mode
    /\ pc = "exited"
    /\ attach_needed
    /\ to_enable # <<>>
    /\ to_disable # <<>>
    /\ result["changed"] = TRUE

\* C3: state=detached together with a non-empty enabled or disabled list
\* fails with the validation error before any invocation, the status read
\* included.
C3_DetachedWithLists ==
    (state = Some("detached") /\ (enabled # <<>> \/ disabled # <<>>)) =>
        /\ calls = <<>>
        /\ pc \in {"start", "validate", "failed"}
        /\ pc = "failed" => FailMsg = MsgValidate

\* The scenario of the specification: state=detached, enabled=["livepatch"].
C3_Witness ==
    /\ state = Some("detached")
    /\ enabled = <<"livepatch">>
    /\ disabled = <<>>
    /\ pc = "failed"
    /\ FailMsg = MsgValidate

\* C4 (as stated): when the run fails because an attach is implied and no
\* token was supplied, no invocation has been made in that run.
C4_NoCallBeforeTokenError ==
    (pc = "failed" /\ FailMsg \in {MsgToken, MsgRequiredIf}) => calls = <<>>

\* C4 (amended): with an attach implied by the parameters, no usable token
\* and a snapshot that does not report the host attached, the run fails; no
\* attach, detach, enable or disable is invoked; with state=attached and no
\* token parameter at all it fails before any invocation, otherwise the one
\* invocation made is the initial status read and, when that read succeeds,
\* the failure is the missing-token validation error.
C4_NoTokenFails ==
    ( /\ state = Some("attached") \/ ((enabled # <<>> \/ disabled # <<>>) /\ state = None)
      /\ token \in {None, Some("")}
      /\ pc \notin {"start", "validate", "observe", "plan"}
      /\ ~_status_attached(status) ) =>
        /\ pc = "failed"
        /\ CallsOf(Mutating) = <<>>
        /\ IF state = Some("attached") /\ token = None
           THEN calls = <<>> /\ FailMsg = MsgRequiredIf
           ELSE /\ Len(calls) = 1
                /\ calls[1].cmd = StatusCmd
                /\ calls[1].rc = 0 => FailMsg = MsgToken

\* state unset, a service to enable, no token, host not attached: the run
\* read the status and then failed for the missing token.
C4_Witness ==
    /\ state = None
    /\ enabled # <<>>
    /\ token = None
    /\ ~host.attached
    /\ pc = "failed"
    /\ FailMsg = MsgToken
    /\ Len(calls) = 1

\* C5: a non-zero exit code of any invocation ends the run in a failure that
\* carries that exit code, stdout, stderr and command, and it is the last
\* invocation of the run.
C5_AbortOnFailure ==
    \A i \in 1..Len(calls) :
        calls[i].rc # 0 =>
            /\ i = Len(calls)
            /\ pc = "failed"
            /\ failure = Some([msg |-> MsgCommand, rc |-> calls[i].rc,
                               stdout |-> calls[i].out, stderr |-> calls[i].err,
                               cmd |-> calls[i].cmd])

\* The disable invocation failed after attach and enable had succeeded.
C5_Witness ==
    /\ Len(calls) = 5
    /\ calls[2].fn = "_maybe_attach"
    /\ calls[4].fn = "_maybe_enable_services"
    /\ calls[5].fn = "_maybe_disable_services"
    /\ calls[5].rc = 2
    /\ pc = "failed"
    /\ host.attached

\* The fixed invocation shape of each action kind, as the interface table of
\* the specification lists it, and the token or service names that follow it.
Shape(fn) ==
    CASE fn = "_get_status" -> <<"status", "--wait", "--format=json">>
      [] fn = "_maybe_attach" -> <<"attach", "--format=json">>
      [] fn = "_maybe_detach" -> <<"detach", "--assume-yes", "--format=json">>
      [] fn = "_maybe_enable_services" -> <<"enable", "--assume-yes", "--format=json">>
      [] fn = "_maybe_disable_services" -> <<"disable", "--assume-yes", "--format=json">>

Operands(fn) ==
    CASE fn = "_maybe_attach" -> <<token.v>>
      [] fn = "_maybe_enable_services" -> to_enable
      [] fn = "_maybe_disable_services" -> to_disable
      [] OTHER -> <<>>

\* The run ended on a failing invocation.
CommandFailed == pc = "failed" /\ calls # <<>> /\ calls[Len(calls)].rc # 0

\* C6 (as stated): the vector a failing action surfaces is exactly the fixed
\* shape of its kind followed by its token or service names, nothing else.
C6_ExactVector ==
    CommandFailed =>
        failure.v["cmd"] = Shape(calls[Len(calls)].fn) \o Operands(calls[Len(calls)].fn)

\* C6 (amended): the surfaced vector is the resolved path of the executable,
\* then the fixed shape of the action kind, then its token or service names,
\* with no other element.
C6_VectorAfterExecutable ==
    CommandFailed =>
        failure.v["cmd"] =
            <<pro>> \o Shape(calls[Len(calls)].fn) \o Operands(calls[Len(calls)].fn)

\* The scenario of the specification: enabling ["livepatch"] exits non-zero.
C6_Witness ==
    /\ CommandFailed
    /\ calls[Len(calls)].fn = "_maybe_enable_services"
    /\ to_enable = <<"livepatch">>
    /\ failure.v["cmd"] = <<pro, "enable", "--assume-yes", "--format=json", "livepatch">>

\* C7: attach_needed is true exactly when (state=attached or a list is
\* non-empty) and the snapshot is not attached; a non-check run with a token
\* then invokes attach right after the status read.
C7_AttachInference ==
    /\ pc = "execute" =>
           (attach_needed <=>
               /\ state = Some("attached") \/ Len(enabled) > 0 \/ Len(disabled) > 0
               /\ ~(status.t = "dict" /\ "attached" \in DOMAIN status.d
                      /\ status.d["attached"] = JBool(TRUE)))
    /\ ( /\ pc \in AfterPlan \ {"execute"}
         /\ ~params.check_mode
         /\ attach_needed
         /\ token = Some("tok") ) =>
           (Len(calls) >= 2 /\ calls[2].fn = "_maybe_attach")

\* state unset, a service to disable, host not attached: attach was invoked.
C7_Witness ==
    /\ state = None
    /\ enabled = <<>>
    /\ disabled # <<>>
    /\ attach_needed
    /\ pc = "reobserve"
    /\ calls[2].fn = "_maybe_attach"
    /\ calls[2].rc = 0

\* C8: attach_needed and detach_needed are never both true, and no run
\* invokes both attach and detach.
C8_MutualExclusion ==
    /\ ~(attach_needed /\ detach_needed)
    /\ CallsOf({"_maybe_attach"}) = <<>> \/ CallsOf({"_maybe_detach"}) = <<>>

\* A run whose plan held a detach, after the detach was invoked.
C8_Witness ==
    /\ pc = "enable"
    /\ detach_needed
    /\ ~attach_needed
    /\ CallsOf({"_maybe_detach"}) # <<>>

\* C9: to_enable is the subsequence of the enabled list of the names not
\* currently enabled, to_disable the subsequence of the disabled list of the
\* names currently enabled, in the caller's order, duplicates kept.
C9_DiffCorrect ==
    pc \in AfterPlan =>
        LET C == _collect_enabled_services(status)
        IN  /\ to_enable = SelectSeq(enabled, LAMBDA svc : svc \notin C)
            /\ to_disable = SelectSeq(disabled, LAMBDA svc : svc \in C)

\* A plan that filters one name out of a list given in reverse of the tool's
\* order and keeps a duplicate in the other.
C9_Witness ==
    /\ pc = "execute"
    /\ enabled = <<"livepatch", "esm-apps">>
    /\ to_enable = <<"livepatch">>
    /\ to_disable = <<"esm-apps", "esm-apps">>

\* C10: a non-check run that returns reports changed exactly when it invoked
\* attach, detach, enable or disable; enable and disable are invoked only
\* with a non-empty list.
C10_ChangedIffActed ==
    /\ (pc = "exited" /\ ~params.check_mode) =>
           (result["changed"] <=> CallsOf(Mutating) # <<>>)
    /\ CallsOf({"_maybe_enable_services"}) # <<>> => to_enable # <<>>
    /\ CallsOf({"_maybe_disable_services"}) # <<>> => to_disable # <<>>

\* A run that only disabled a service, and returned changed.
C10_Witness ==
    /\ pc = "exited"
    /\ ~params.check_mode
    /\ to_enable = <<>>
    /\ Len(CallsOf(Mutating)) = 1
    /\ CallsOf({"_maybe_disable_services"}) # <<>>
    /\ result["changed"] = TRUE

\* The value _execute returned for a recorded call that exited with 0.
Parsed(c) == _execute(Ok(c.out))

\* C11: every returned result holds changed and status; a *_result field is
\* present only if that action was invoked in this run; the enabled and
\* disabled lists are present only when changed is true, in either mode.
C11_ResultShape ==
    pc = "exited" =>
        /\ {"changed", "status"} \subseteq DOMAIN result
        /\ "attach_result" \in DOMAIN result => CallsOf({"_maybe_attach"}) # <<>>
        /\ "detach_result" \in DOMAIN result => CallsOf({"_maybe_detach"}) # <<>>
        /\ "enable_result" \in DOMAIN result => CallsOf({"_maybe_enable_services"}) # <<>>
        /\ "disable_result" \in DOMAIN result => CallsOf({"_maybe_disable_services"}) # <<>>
        /\ {"enabled", "disabled"} \cap DOMAIN result # {} => result["changed"] = TRUE

\* A returned result with the enable fields and without the disable ones.
C11_Witness ==
    /\ pc = "exited"
    /\ ~params.check_mode
    /\ DOMAIN result = {"changed", "status", "enable_result", "enabled"}
    /\ disabled # <<>>

\* C12: a non-check run that returns changed=true returns the output of a
\* status read made after its last action (the host as it then is, when the
\* tool printed its status document); one that returns changed=false made
\* exactly one invocation, the status read whose output it returns.
C12_FinalStatusFresh ==
    (pc = "exited" /\ ~params.check_mode) =>
        IF result["changed"]
        THEN LET n == Len(calls)
             IN  /\ n >= 3
                 /\ calls[n].fn = "_get_status"
                 /\ CallsOf(Mutating) # <<>>
                 /\ result["status"] = Parsed(calls[n])
                 /\ calls[n].out.kind = "json" => result["status"] = StatusOf(host)
        ELSE /\ Len(calls) = 1
             /\ calls[1].fn = "_get_status"
             /\ result["status"] = Parsed(calls[1])

\* A run that detached: the returned status differs from the first snapshot
\* and shows the host detached.
C12_Witness ==
    /\ pc = "exited"
    /\ ~params.check_mode
    /\ result["changed"] = TRUE
    /\ CallsOf({"_maybe_detach"}) # <<>>
    /\ _status_attached(Parsed(calls[1]))
    /\ result["status"] = StatusOf([attached |-> FALSE, enabled |-> {}])

\* Whether an attach will occur: the parameters ask for it or imply it and
\* the host is not attached, by the snapshot of this run once it was read.
AttachWillOccur ==
    /\ state = Some("attached") \/ enabled # <<>> \/ disabled # <<>>
    /\ ~(IF calls = <<>> THEN host.attached ELSE _status_attached(Parsed(calls[1])))

\* C13 (as stated): a run fails for lack of a token exactly when an attach
\* will occur; state=attached without a token on an attached host does not
\* fail for the missing token.
C13_TokenIffAttach ==
    /\ (pc = "failed" /\ FailMsg \in {MsgToken, MsgRequiredIf}) => AttachWillOccur
    /\ (pc \in AfterPlan /\ token \in {None, Some("")}) => ~AttachWillOccur

\* Place of an action in the order attach-or-detach, enable, disable.
Rank(fn) ==
    CASE fn \in {"_maybe_attach", "_maybe_detach"} -> 1
      [] fn = "_maybe_enable_services" -> 2
      [] fn = "_maybe_disable_services" -> 3

\* C14: the actions of a run are at most one attach or detach, then at most
\* one enable, then at most one disable, and an invocation is made only
\* after every earlier one of the run returned exit code 0.
C14_ActionOrder ==
    LET m == CallsOf(Mutating)
    IN  /\ \A i, j \in 1..Len(m) : i < j => Rank(m[i].fn) < Rank(m[j].fn)
        /\ \A i \in 1..(Len(calls) - 1) : calls[i].rc = 0

\* A run that attached, enabled and disabled, in this order.
C14_Witness ==
    /\ Len(CallsOf(Mutating)) = 3
    /\ CallsOf(Mutating)[1].fn = "_maybe_attach"
    /\ CallsOf(Mutating)[2].fn = "_maybe_enable_services"
    /\ CallsOf(Mutating)[3].fn = "_maybe_disable_services"
    /\ pc = "exited"

\* The snapshot the plan of this run was first made from.
FirstSnapshot == Parsed(calls[1])

\* C15: enable and disable are invoked only after the first snapshot
\* reported the host attached or after an attach of the same run returned
\* exit code 0; a run that invokes detach invokes neither.
C15_AttachGates ==
    /\ \A i \in 1..Len(calls) :
           calls[i].fn \in {"_maybe_enable_services", "_maybe_disable_services"} =>
               \/ _status_attached(FirstSnapshot)
               \/ \E j \in 1..(i - 1) : calls[j].fn = "_maybe_attach" /\ calls[j].rc = 0
    /\ CallsOf({"_maybe_detach"}) # <<>> =>
           CallsOf({"_maybe_enable_services", "_maybe_disable_services"}) = <<>>

\* A service is enabled on a host the first snapshot showed not attached,
\* after the attach of the same run.
C15_Witness ==
    /\ Len(calls) >= 4
    /\ ~_status_attached(FirstSnapshot)
    /\ calls[2].fn = "_maybe_attach"
    /\ calls[4].fn = "_maybe_enable_services"
    /\ calls[4].rc = 0

\* The snapshot of the latest successful status read made before call i.
SnapshotBefore(i) ==
    Parsed(calls[CHOOSE k \in 1..(i - 1) :
                    /\ calls[k].fn = "_get_status"
                    /\ \A l \in (k + 1)..(i - 1) : calls[l].fn # "_get_status"])

\* The service names an enable or disable invocation was given.
NamesOf(c) == SubSeq(c.cmd, Len(EnableCmd(<<>>)) + 1, Len(c.cmd))

\* C16: the list of every enable or disable invocation is non-empty and is
\* the diff of the caller's list against the latest snapshot read before it,
\* the one read after the attach when the run attached; a service that
\* snapshot reports enabled is never passed to enable, one it does not
\* report enabled never to disable.
C16_PlanFromFreshSnapshot ==
    \A i \in 1..Len(calls) :
        LET C == _collect_enabled_services(SnapshotBefore(i))
        IN  /\ calls[i].fn = "_maybe_enable_services" =>
                /\ NamesOf(calls[i]) # <<>>
                /\ NamesOf(calls[i]) = SelectSeq(enabled, LAMBDA svc : svc \notin C)
            /\ calls[i].fn = "_maybe_disable_services" =>
                /\ NamesOf(calls[i]) # <<>>
                /\ NamesOf(calls[i]) = SelectSeq(disabled, LAMBDA svc : svc \in C)

\* esm-apps was asked for, was not enabled before the attach, came enabled
\* with the attach and was left out of the enable invocation.
C16_Witness ==
    /\ Len(calls) >= 4
    /\ enabled = <<"esm-apps", "livepatch">>
    /\ calls[2].fn = "_maybe_attach"
    /\ _collect_enabled_services(FirstSnapshot) = {}
    /\ calls[4].fn = "_maybe_enable_services"
    /\ NamesOf(calls[4]) = <<"livepatch">>

\* ------------------------------------------- status payloads of any shape
\* Marks a key an entry does not have.
Absent == [t |-> "absent"]

\* The service entry {"name": n, "enabled": e, "status": s, "state": st},
\* without the keys given as Absent.
Entry(n, e, s, st) ==
    LET f == [name |-> n, enabled |-> e, status |-> s, state |-> st]
    IN  JDict([k \in {x \in DOMAIN f : f[x] # Absent} |-> f[k]])

NameVals ==
    {Absent, JNull, JStr(""), JStr("esm-apps"), JStr("livepatch"), JList(<<JStr("livepatch")>>)}

EnabledVals == {Absent, JBool(TRUE), JBool(FALSE), JNull, JStr("false"), JStr("")}

TextWords == {"enabled", "ENABLED", "Active", "On", "disabled", "n/a"}

TextVals == {Absent, JNull, JBool(TRUE)} \cup {JStr(w) : w \in TextWords}

DictEntries ==
    {Entry(n, e, s, st) : n \in NameVals, e \in EnabledVals, s \in TextVals, st \in TextVals}

\* Entries of longer lists: three mappings, one of them without a name, and
\* two entries that are no mappings.
MixedEntries ==
    {Entry(JStr("esm-apps"), Absent, JStr("ENABLED"), Absent),
     Entry(JStr("livepatch"), JBool(TRUE), Absent, Absent),
     Entry(Absent, Absent, Absent, JStr("On")),
     JStr("livepatch"),
     JNull}

ServicesVals ==
    {JList(q) : q \in UNION {[1..k -> MixedEntries] : k \in 0..MaxEntries}}
        \cup {JList(<<en>>) : en \in DictEntries}
        \cup {JNull, JBool(TRUE), JStr(""), JStr("livepatch"), JDict(<<>>),
              JDict([livepatch |-> JBool(TRUE)])}

Payloads ==
    {JNull, JList(<<>>), JDict([raw |-> JStr("not json")]), JDict([attached |-> JBool(TRUE)])}
        \cup {JDict([services |-> v]) : v \in ServicesVals}
        \cup {JDict([attached |-> a, services |-> JList(<<>>)]) :
                 a \in {JBool(TRUE), JBool(FALSE), JNull, JStr("yes")}}

\* Positions of the mappings among the entries of a payload.
DictItems(st) == {i \in 1..Len(Items(ServiceEntries(st))) : Items(ServiceEntries(st))[i].t = "dict"}

\* Parameters of a run that asks for nothing.
NoParams ==
    [state |-> None, token |-> None, enabled |-> None, disabled |-> None, check_mode |-> FALSE]

\* A status payload of any shape, before it is interpreted.
InitInterp ==
    /\ status \in Payloads
    /\ pc = "interpret"
    /\ params = NoParams
    /\ host = [attached |-> FALSE, enabled |-> {}]
    /\ run = 1
    /\ result = [changed |-> FALSE]
    /\ changed = FALSE
    /\ attach_needed = FALSE
    /\ detach_needed = FALSE
    /\ to_enable = <<>>
    /\ to_disable = <<>>
    /\ calls = <<>>
    /\ failure = None

\* _status_attached, _collect_enabled_services and, on every mapping among
\* the entries, _service_enabled are applied to the payload.
Interpret ==
    /\ pc = "interpret"
    /\ pc' = "interpreted"
    /\ result' =
           [attached |-> _status_attached(status),
            raised |-> CollectRaises(status),
            current_enabled |->
                IF CollectRaises(status) THEN {} ELSE _collect_enabled_services(status),
            flags |-> [i \in DictItems(status) |->
                          _service_enabled(Items(ServiceEntries(status))[i])]]
    /\ UNCHANGED <<params, host, run, status, changed, attach_needed, detach_needed,
                   to_enable, to_disable, calls, failure>>

NextInterp == Interpret

SpecInterp == InitInterp /\ [][NextInterp]_vars

\* An entry that is a mapping with a name.
WellFormed(svc) == svc.t = "dict" /\ get(svc, "name").t = "str" /\ get(svc, "name").s # ""

\* C17 (as stated): for every status payload _collect_enabled_services
\* raises nothing and returns the enabled names of the well-formed entries.
C17_MalformedSkipped ==
    pc = "interpreted" =>
        /\ ~result["raised"]
        /\ result["current_enabled"] =
               {get(Items(ServiceEntries(status))[i], "name").s :
                   i \in {j \in DictItems(status) :
                             /\ WellFormed(Items(ServiceEntries(status))[j])
                             /\ result["flags"][j]}}

\* Case-insensitive membership in {enabled, active, on}, on the words of
\* TextWords.
OnWords == {"enabled", "ENABLED", "Active", "On"}

\* Python's falsy values among the values of an `enabled` field.
Falsy == {JNull, JBool(FALSE), JStr("")}

\* The ordered strategies: the first field that applies decides.
Strategies == <<"enabled", "status", "state">>

Applies(svc, k) == k \in DOMAIN svc.d /\ (k = "enabled" \/ svc.d[k].t = "str")

FirstMatch(svc) ==
    IF \E i \in 1..Len(Strategies) : Applies(svc, Strategies[i])
    THEN Strategies[CHOOSE i \in 1..Len(Strategies) :
                        /\ Applies(svc, Strategies[i])
                        /\ \A j \in 1..(i - 1) : ~Applies(svc, Strategies[j])]
    ELSE "none"

RefEnabled(svc) ==
    CASE FirstMatch(svc) = "none" -> FALSE
      [] FirstMatch(svc) = "enabled" -> svc.d["enabled"] \notin Falsy
      [] OTHER -> svc.d[FirstMatch(svc)].s \in OnWords

\* C18: _service_enabled is first-match-wins over the `enabled` field (its
\* truth value), a textual `status`, a textual `state` (case-insensitive
\* membership in {enabled, active, on}), and disabled when none applies.
C18_FirstMatchWins ==
    pc = "interpreted" =>
        \A i \in DictItems(status) :
            result["flags"][i] = RefEnabled(Items(ServiceEntries(status))[i])

\* An entry whose status is no text and whose state "On" decides.
C18_Witness ==
    /\ pc = "interpreted"
    /\ status = JDict([services |->
           JList(<<Entry(JStr("livepatch"), Absent, JNull, JStr("On"))>>)])
    /\ result["flags"][1] = TRUE
    /\ result["current_enabled"] = {"livepatch"}

\* What the first snapshot and the parameters other than check_mode say
\* about a change: an attach or a detach is due, or a requested service is
\* not in its requested state.
PredictedChanged ==
    LET attached == _status_attached(FirstSnapshot)
        current_enabled == _collect_enabled_services(FirstSnapshot)
    IN  \/ (state = Some("attached") \/ enabled # <<>> \/ disabled # <<>>) /\ ~attached
        \/ state = Some("detached") /\ attached
        \/ Range(enabled) \ current_enabled # {}
        \/ Range(disabled) \cap current_enabled # {}

\* C19: a run that ends without a failure returns, in check mode and out of
\* it, the same `changed`: the one determined by the parameters and the
\* first snapshot alone, also when the plan made after an attach differs
\* from the one made before it.
C19_CheckPredicts == pc = "exited" => result["changed"] = PredictedChanged

\* A run outside check mode that attached and then found nothing left to
\* enable, although the first plan had a service to enable.
C19_Witness ==
    /\ pc = "exited"
    /\ ~params.check_mode
    /\ Len(calls) >= 3
    /\ calls[2].fn = "_maybe_attach"
    /\ enabled = <<"esm-apps">>
    /\ ToEnable(enabled, _collect_enabled_services(FirstSnapshot)) = <<"esm-apps">>
    /\ to_enable = <<>>
    /\ CallsOf({"_maybe_enable_services"}) = <<>>
    /\ result["changed"] = TRUE

\* C20: to_enable and to_disable of a plan share no name, and no run passes
\* the same name to an enable and to a disable invocation.
C20_PlanDisjoint ==
    /\ Range(to_enable) \cap Range(to_disable) = {}
    /\ \A i, j \in 1..Len(calls) :
           (calls[i].fn = "_maybe_enable_services" /\ calls[j].fn = "_maybe_disable_services")
               => Range(NamesOf(calls[i])) \cap Range(NamesOf(calls[j])) = {}

\* The two lists share a name and the run both enabled and disabled.
C20_Witness ==
    /\ Range(enabled) \cap Range(disabled) # {}
    /\ to_enable # <<>>
    /\ to_disable # <<>>
    /\ CallsOf({"_maybe_enable_services"}) # <<>>
    /\ CallsOf({"_maybe_disable_services"}) # <<>>

====
